---- MODULE Spec2Model ----
(***************************************************************************)
(* Model of keycheck-go: the ordered validator registry (validatorsmap.go) *)
(* and the keyChain engine (keychain.go) that evaluates the registered     *)
(* predicates under one of the operators NOT, AND, OR, XOR.                *)
(*                                                                         *)
(* Conventions.  Slice and map positions are 0-based as in the Go code;    *)
(* position i of a slice is element i+1 of the TLA+ sequence.  A nil       *)
(* []error and an empty one are both <<>> (the code never returns an       *)
(* empty non-nil slice).  A nil func value is the string "nil"; a nil      *)
(* error is the string "nil".                                              *)
(***************************************************************************)
EXTENDS Integers, Sequences, FiniteSets, TLC

\* ------------------------------------------------------------------ bounds

\* Number of distinct label identifiers the caller uses.
NumIDs == 3

\* Number of validators registered when filling a registry past the inline
\* error buffer.
MaxLong == 35

\* ------------------------------------------------------------ value types

IdName == <<"A", "B", "C", "D", "E", "F">>

IDs == {IdName[i] : i \in 1..NumIDs}

\* type Status struct { ID, Details string }
Status(id, details) == [ID |-> id, Details |-> details]

\* Status{}
ZeroStatus == Status("", "")

\* The predefined sentinel labels used as defaultStatus by the callers.
NONE == Status("NONE", "")

FAIL == Status("FAIL", "")

Defaults == {NONE, FAIL}

\* BitwiseID constants (iota).
NOT == 0

AND == 1

OR == 2

XOR == 3

\* BitwiseID is a uint8.
Uint8Max == 255

\* Operator values a caller passes: the four defined ones and two outside.
Conds == {NOT, AND, OR, XOR, XOR + 1, Uint8Max}

\* IsValid as it would be with the range check one value too wide.
IsValidOffByOne(bid) == bid <= XOR + 1

\* func (bid BitwiseID) IsValid() bool { return bid <= XOR }
IsValid(bid) == bid <= XOR

\* Input data handed to Validate.
Data == {0, 1}

\* Caller-supplied predicates func(a T) (bool, error); "nil" is the nil func.
Fns == {"nil", "alwaysTrue", "alwaysFalse", "sometimesTrue", "equalsTarget", "trueWithErr"}

\* fn(data): the (bool, error) a predicate returns on an input.
Call(fn, data) ==
    CASE fn = "alwaysTrue"    -> [ok |-> TRUE,  err |-> "nil"]
      [] fn = "alwaysFalse"   -> [ok |-> FALSE, err |-> "always false"]
      [] fn = "sometimesTrue" -> IF data = 1
                                 THEN [ok |-> TRUE,  err |-> "nil"]
                                 ELSE [ok |-> FALSE, err |-> "input did not match target"]
      [] fn = "equalsTarget"  -> [ok |-> data = 1, err |-> "nil"]
      [] fn = "trueWithErr"   -> [ok |-> TRUE,  err |-> "warning"]

\* validatorEntry[T]{id, status, validator}
Entry(id, status, fn) == [id |-> id, status |-> status, validator |-> fn]

\* validatorEntry[T]{}
ZeroEntry == Entry("", ZeroStatus, "nil")

\* ------------------------------------------------------------------ state

VARIABLES
    entries,    \* kc.validators.entries: the ordered entry slice
    index,      \* kc.validators.index: map id -> position (a function on its keys)
    indexNil,   \* kc.validators.index == nil
    condition,  \* kc.condition
    ret         \* the last call: its receiver, arguments and return values

vars == <<entries, index, indexNil, condition, ret>>

\* map[string]int{}
EmptyMap == [k \in {} |-> 0]

\* entries[i] for a 0-based position i
At(es, i) == es[i + 1]

\* The label a call returns: which pointer it is and what it reads as at return.
\*   kind "default": the caller's defaultStatus;  "entry": &entries[slot].status;
\*   "empty": the package's emptyStatus;  "nil": a nil StatusGetter.
Lbl(kind, slot, st) == [kind |-> kind, slot |-> slot, ID |-> st.ID, Details |-> st.Details]

NoLbl == Lbl("nil", -1, ZeroStatus)

\* A call record with every return value at its zero.  errId is the operator
\* value an ErrInvalidBitwiseID holds (-1 without one).  existed, pos and wasNil
\* record what the call found: the identifier was in the index, at which
\* position, and whether the index was nil when the call began.
Ret0(op, recv) ==
    [op |-> op, recv |-> recv, id |-> "", status |-> ZeroStatus, fn |-> "nil",
     cond |-> 0, data |-> 0, def |-> ZeroStatus, err |-> "nil", errId |-> -1,
     lbl |-> NoLbl, ok |-> FALSE, errs |-> <<>>, calls |-> <<>>,
     existed |-> FALSE, pos |-> -1, wasNil |-> FALSE]

\* ---------------------------------------------------------- validatorsMap

\* func (vm validatorsMap[T]) Get(id) (Status, func, bool)
vmGet(es, idx, idxNil, id) ==
    IF idxNil
    THEN [status |-> ZeroStatus, fn |-> "nil", found |-> FALSE]
    ELSE IF id \notin DOMAIN idx
         THEN [status |-> ZeroStatus, fn |-> "nil", found |-> FALSE]
         ELSE [status |-> At(es, idx[id]).status,
               fn     |-> At(es, idx[id]).validator,
               found  |-> TRUE]

\* Set as it would be if a new identifier went back to the position its
\* identifier sorts to, as an identifier-ordered registry would place it.
vmSetSorted(es, idx, idxNil, status, fn) ==
    LET idx0 == IF idxNil THEN EmptyMap ELSE idx
        Rank(id) == CHOOSE n \in 1..Len(IdName) : IdName[n] = id
    IN  IF status.ID \in DOMAIN idx0
        THEN [entries |-> [es EXCEPT ![idx0[status.ID] + 1] = Entry(status.ID, status, fn)],
              index   |-> idx0]
        ELSE LET before == SelectSeq(es, LAMBDA e : Rank(e.id) < Rank(status.ID))
                 after  == SelectSeq(es, LAMBDA e : Rank(e.id) > Rank(status.ID))
                 es1    == before \o <<Entry(status.ID, status, fn)>> \o after
             IN  [entries |-> es1,
                  index   |-> [k \in DOMAIN idx0 \cup {status.ID} |->
                                 CHOOSE i \in 0..(Len(es1) - 1) : es1[i + 1].id = k]]

\* Set as it would be if an overwrite re-inserted the entry at the end.
vmSetMoveToEnd(es, idx, idxNil, status, fn) ==
    LET idx0 == IF idxNil THEN EmptyMap ELSE idx
        kept == IF status.ID \in DOMAIN idx0
                THEN [p \in 1..(Len(es) - 1) |->
                        IF p - 1 < idx0[status.ID] THEN es[p] ELSE es[p + 1]]
                ELSE es
        es1  == Append(kept, Entry(status.ID, status, fn))
    IN  [entries |-> es1,
         index   |-> [k \in DOMAIN idx0 \cup {status.ID} |->
                        CHOOSE i \in 0..(Len(es1) - 1) : es1[i + 1].id = k]]

\* Set as it would be if an overwrite replaced the predicate but not the label.
vmSetKeepsStatus(es, idx, idxNil, status, fn) ==
    LET idx0 == IF idxNil THEN EmptyMap ELSE idx
    IN  IF status.ID \in DOMAIN idx0
        THEN [entries |-> [es EXCEPT ![idx0[status.ID] + 1].validator = fn],
              index   |-> idx0]
        ELSE LET es1 == Append(es, Entry(status.ID, status, fn))
             IN  [entries |-> es1,
                  index   |-> [k \in DOMAIN idx0 \cup {status.ID} |->
                                 IF k = status.ID THEN Len(es1) - 1 ELSE idx0[k]]]

\* func (vm *validatorsMap[T]) Set(status, fn)
vmSet(es, idx, idxNil, status, fn) ==
    LET idx0 == IF idxNil THEN EmptyMap ELSE idx
    IN  IF status.ID \in DOMAIN idx0
        THEN [entries |-> [es EXCEPT ![idx0[status.ID] + 1] = Entry(status.ID, status, fn)],
              index   |-> idx0]
        ELSE LET es1 == Append(es, Entry(status.ID, status, fn))
             IN  [entries |-> es1,
                  index   |-> [k \in DOMAIN idx0 \cup {status.ID} |->
                                 IF k = status.ID THEN Len(es1) - 1 ELSE idx0[k]]]

\* for j := i; j < len(vm.entries); j++ { vm.index[vm.entries[j].id] = j }
RECURSIVE Reindex(_, _, _)
Reindex(idx, es, j) ==
    IF j < Len(es)
    THEN Reindex([k \in DOMAIN idx \cup {At(es, j).id} |->
                    IF k = At(es, j).id THEN j ELSE idx[k]], es, j + 1)
    ELSE idx

\* copy(vm.entries[i:], vm.entries[i+1:])
CopyDown(es, i) ==
    [p \in 1..Len(es) |-> IF p - 1 >= i /\ p < Len(es) THEN es[p + 1] ELSE es[p]]

\* Del as it would be without the re-indexing loop.
vmDelNoReindex(es, idx, idxNil, id) ==
    IF idxNil \/ id \notin DOMAIN idx
    THEN [entries |-> es, index |-> idx, removed |-> FALSE]
    ELSE [entries |-> SubSeq([CopyDown(es, idx[id]) EXCEPT ![Len(es)] = ZeroEntry],
                             1, Len(es) - 1),
          index   |-> [k \in DOMAIN idx \ {id} |-> idx[k]],
          removed |-> TRUE]

\* Del as it would be with swap-to-end-and-pop instead of shift-and-reindex.
vmDelSwapLast(es, idx, idxNil, id) ==
    IF idxNil \/ id \notin DOMAIN idx
    THEN [entries |-> es, index |-> idx, removed |-> FALSE]
    ELSE LET i     == idx[id]
             last  == Len(es) - 1
             moved == At(es, last)
             es1   == SubSeq([es EXCEPT ![i + 1] = moved], 1, last)
         IN  [entries |-> es1,
              index   |-> [k \in DOMAIN idx \ {id} |-> IF k = moved.id THEN i ELSE idx[k]],
              removed |-> TRUE]

\* Del as it would be if it only cleared the entry's predicate and kept the entry.
vmDelTombstone(es, idx, idxNil, id) ==
    IF idxNil \/ id \notin DOMAIN idx
    THEN [entries |-> es, index |-> idx, removed |-> FALSE]
    ELSE [entries |-> [es EXCEPT ![idx[id] + 1].validator = "nil"],
          index   |-> idx,
          removed |-> TRUE]

\* func (vm *validatorsMap[T]) Del(id) bool
vmDel(es, idx, idxNil, id) ==
    IF idxNil
    THEN [entries |-> es, index |-> idx, removed |-> FALSE]
    ELSE IF id \notin DOMAIN idx
         THEN [entries |-> es, index |-> idx, removed |-> FALSE]
         ELSE LET i    == idx[id]
                  idx1 == [k \in DOMAIN idx \ {id} |-> idx[k]]
                  last == Len(es) - 1
                  es1  == CopyDown(es, i)
                  es2  == [es1 EXCEPT ![last + 1] = ZeroEntry]
                  es3  == SubSeq(es2, 1, last)
              IN  [entries |-> es3, index |-> Reindex(idx1, es3, i), removed |-> TRUE]

\* ----------------------------------------------------------------- Validate

\* var emptyStatus = &Status{}
EmptyLbl == Lbl("empty", -1, ZeroStatus)

\* defaultStatus as passed by the caller
DefaultLbl(def) == Lbl("default", -1, def)

\* &entry.status for entry := &entries[i]
EntryLbl(es, i) == Lbl("entry", i, At(es, i).status)

\* e, once v has been computed: a loop body's statements are carried out
\* before the next iteration begins.
After(v, e) == IF v = v THEN e ELSE e

\* What a returned label reads as once the entry slice holds es: an entry
\* label is a pointer into the slice's backing array, which Set overwrites in
\* place and Del shifts down and zeroes at its former last position; an append
\* leaves the slots in front of it as they were, in the old array and in a
\* reallocated one.  The other labels do not point into the registry.
Deref(lbl, es) ==
    IF lbl.kind # "entry"
    THEN Status(lbl.ID, lbl.Details)
    ELSE IF lbl.slot < Len(es) THEN At(es, lbl.slot).status ELSE ZeroStatus

\* What Validate returns, with the positions of the predicates it invoked.
Result(lbl, ok, errs, calls) == [lbl |-> lbl, ok |-> ok, errs |-> errs, calls |-> calls]

\* case NOT: the loop over kc.validators.entries from position i on
RECURSIVE NotLoop(_, _, _, _, _, _)
NotLoop(es, i, lbl, calls, data, def) ==
    IF i >= Len(es)
    THEN Result(IF lbl = NoLbl THEN EmptyLbl ELSE lbl, TRUE, <<>>, calls)
    ELSE IF At(es, i).validator = "nil"
         THEN NotLoop(es, i + 1, lbl, calls, data, def)
         ELSE IF ~Call(At(es, i).validator, data).ok
              THEN NotLoop(es, i + 1, EntryLbl(es, i), Append(calls, i), data, def)
              ELSE Result(DefaultLbl(def), FALSE, <<>>, Append(calls, i))

\* NOT as it would be if a failure reported the error of the predicate that
\* returned true, the way AND reports the error of its failing predicate.
validateNOTReportsErr(es, data, def) ==
    LET r == NotLoop(es, 0, NoLbl, <<>>, data, def)
        err == Call(At(es, r.calls[Len(r.calls)]).validator, data).err
    IN  IF ~r.ok /\ err # "nil" THEN [r EXCEPT !.errs = <<err>>] ELSE r

\* NOT as it would be if a failure handed back the label of the predicate that
\* returned true instead of the caller's default.
validateNOTFailLabel(es, data, def) ==
    LET r == NotLoop(es, 0, NoLbl, <<>>, data, def)
    IN  IF ~r.ok THEN [r EXCEPT !.lbl = EntryLbl(es, r.calls[Len(r.calls)])] ELSE r

\* NOT as it would be if a success kept the first evaluated label, not the last.
validateNOTFirstLabel(es, data, def) ==
    LET r == NotLoop(es, 0, NoLbl, <<>>, data, def)
    IN  IF r.ok /\ r.calls # <<>> THEN [r EXCEPT !.lbl = EntryLbl(es, r.calls[1])] ELSE r

\* case NOT of Validate
validateNOT(es, data, def) == NotLoop(es, 0, NoLbl, <<>>, data, def)

\* AND's error list as it would be without the err != nil test.
AndErrsNoNilCheck(err) == <<err>>

\* if err != nil { errs = append(errs, err) } on AND's failing predicate
AndErrs(err) == IF err # "nil" THEN <<err>> ELSE <<>>

\* The AND loop as it would be if an entry without a predicate counted as a
\* failed one instead of being skipped.
RECURSIVE AndLoopNilFails(_, _, _, _, _, _, _)
AndLoopNilFails(es, i, lbl, ok, calls, data, def) ==
    IF i >= Len(es)
    THEN Result(lbl, ok, <<>>, calls)
    ELSE IF At(es, i).validator = "nil"
         THEN Result(DefaultLbl(def), FALSE, <<>>, calls)
         ELSE LET r == Call(At(es, i).validator, data)
              IN  IF ~r.ok
                  THEN Result(DefaultLbl(def), FALSE, AndErrs(r.err), Append(calls, i))
                  ELSE AndLoopNilFails(es, i + 1, EntryLbl(es, i), r.ok, Append(calls, i),
                                       data, def)

\* case AND: the loop over kc.validators.entries from position i on
RECURSIVE AndLoop(_, _, _, _, _, _, _)
AndLoop(es, i, lbl, ok, calls, data, def) ==
    IF i >= Len(es)
    THEN Result(lbl, ok, <<>>, calls)
    ELSE IF At(es, i).validator = "nil"
         THEN AndLoop(es, i + 1, lbl, ok, calls, data, def)
         ELSE LET r == Call(At(es, i).validator, data)
              IN  IF ~r.ok
                  THEN Result(DefaultLbl(def), FALSE, AndErrs(r.err), Append(calls, i))
                  ELSE AndLoop(es, i + 1, EntryLbl(es, i), r.ok, Append(calls, i), data, def)

\* case AND of Validate
validateAND(es, data, def) == AndLoop(es, 0, EmptyLbl, FALSE, <<>>, data, def)

\* len(bufErrs) for var bufErrs [32]error
BufLen == 32

\* var ( bufErrs [32]error; heapErrs []error; errCount int; usedHeap bool )
ErrAcc0 ==
    [buf |-> [j \in 0..(BufLen - 1) |-> "nil"], heap |-> <<>>, errCount |-> 0, usedHeap |-> FALSE]

\* bufErrs[:n] as a slice
BufPrefix(buf, n) == [j \in 1..n |-> buf[j - 1]]

\* Collect as it would be if every error were written to slot 0 of the buffer.
CollectSlotZero(acc, err) ==
    IF err = "nil"
    THEN acc
    ELSE [acc EXCEPT !.buf[0] = err, !.errCount = acc.errCount + 1]

\* Collect as it would be if the spill to the heap slice did not copy the
\* errors already held in the inline buffer.
CollectSpillDropsBuffer(acc, err) ==
    IF err = "nil"
    THEN acc
    ELSE IF ~acc.usedHeap /\ acc.errCount < BufLen
         THEN [acc EXCEPT !.buf[acc.errCount] = err, !.errCount = acc.errCount + 1]
         ELSE [acc EXCEPT !.heap = Append(acc.heap, err), !.usedHeap = TRUE,
                          !.errCount = acc.errCount + 1]

\* if err != nil { ... errCount++ }: one error into the inline buffer or the heap slice
Collect(acc, err) ==
    IF err = "nil"
    THEN acc
    ELSE IF ~acc.usedHeap /\ acc.errCount < BufLen
         THEN [acc EXCEPT !.buf[acc.errCount] = err, !.errCount = acc.errCount + 1]
         ELSE LET heap0 == IF ~acc.usedHeap THEN BufPrefix(acc.buf, acc.errCount) ELSE acc.heap
              IN  [acc EXCEPT !.heap = Append(heap0, err), !.usedHeap = TRUE,
                              !.errCount = acc.errCount + 1]

\* The tail of validateOR / validateXOR: the error slice handed back on failure
Collected(acc) ==
    IF acc.errCount = 0
    THEN <<>>
    ELSE IF acc.usedHeap THEN acc.heap ELSE BufPrefix(acc.buf, acc.errCount)

\* The OR loop as it would be if a success handed back the errors collected
\* from the failed predicates before it.
RECURSIVE OrLoopKeepsErrs(_, _, _, _, _, _)
OrLoopKeepsErrs(es, i, acc, calls, data, def) ==
    IF i >= Len(es)
    THEN Result(DefaultLbl(def), FALSE, Collected(acc), calls)
    ELSE IF At(es, i).validator = "nil"
         THEN OrLoopKeepsErrs(es, i + 1, acc, calls, data, def)
         ELSE LET r == Call(At(es, i).validator, data)
                  acc1 == Collect(acc, r.err)
                  calls1 == Append(calls, i)
              IN  IF r.ok
                  THEN Result(EntryLbl(es, i), TRUE, Collected(acc), calls1)
                  ELSE After(<<acc1, calls1>>,
                             OrLoopKeepsErrs(es, i + 1, acc1, calls1, data, def))

\* validateOR: the loop over entries from position i on
RECURSIVE OrLoop(_, _, _, _, _, _)
OrLoop(es, i, acc, calls, data, def) ==
    IF i >= Len(es)
    THEN Result(DefaultLbl(def), FALSE, Collected(acc), calls)
    ELSE IF At(es, i).validator = "nil"
         THEN OrLoop(es, i + 1, acc, calls, data, def)
         ELSE LET r == Call(At(es, i).validator, data)
                  acc1 == Collect(acc, r.err)
                  calls1 == Append(calls, i)
              IN  IF r.ok
                  THEN Result(EntryLbl(es, i), TRUE, <<>>, calls1)
                  ELSE After(<<acc1, calls1>>, OrLoop(es, i + 1, acc1, calls1, data, def))

\* func (kc *keyChain[T]) validateOR(data, defaultStatus)
validateOR(es, data, def) == OrLoop(es, 0, ErrAcc0, <<>>, data, def)

\* The XOR cut-off as it would be one too late.
XorTooManyOffByOne(trueCount) == trueCount > 2

\* if trueCount > 1 { return defaultStatus, false, nil }
XorTooMany(trueCount) == trueCount > 1

\* validateXOR: the loop over entries from position i on
RECURSIVE XorLoop(_, _, _, _, _, _, _, _)
XorLoop(es, i, trueCount, lbl, acc, calls, data, def) ==
    IF i >= Len(es)
    THEN IF trueCount = 1
         THEN Result(lbl, TRUE, <<>>, calls)
         ELSE Result(DefaultLbl(def), FALSE, Collected(acc), calls)
    ELSE IF At(es, i).validator = "nil"
         THEN XorLoop(es, i + 1, trueCount, lbl, acc, calls, data, def)
         ELSE LET r == Call(At(es, i).validator, data)
                  acc1 == Collect(acc, r.err)
                  calls1 == Append(calls, i)
              IN  IF r.ok
                  THEN IF XorTooMany(trueCount + 1)
                       THEN Result(DefaultLbl(def), FALSE, <<>>, calls1)
                       ELSE After(calls1,
                                  XorLoop(es, i + 1, trueCount + 1, EntryLbl(es, i), acc,
                                          calls1, data, def))
                  ELSE After(<<acc1, calls1>>,
                             XorLoop(es, i + 1, trueCount, lbl, acc1, calls1, data, def))

\* XOR as it would be if it counted the true predicates over the whole list
\* before deciding, instead of returning at the second true one.
validateXORCountAll(es, data, def) ==
    [XorLoop(es, 0, 0, EmptyLbl, ErrAcc0, <<>>, data, def) EXCEPT
        !.calls = SelectSeq([p \in 1..Len(es) |-> p - 1],
                            LAMBDA i : At(es, i).validator # "nil")]

\* func (kc *keyChain[T]) validateXOR(data, defaultStatus)
validateXOR(es, data, def) == XorLoop(es, 0, 0, EmptyLbl, ErrAcc0, <<>>, data, def)

\* Validate as it would be if an empty registry were treated like a nil index.
ValidateLiveEmptyFails(es, idxNil, cond, data, def) ==
    IF idxNil \/ Len(es) = 0
    THEN Result(DefaultLbl(def), FALSE, <<>>, <<>>)
    ELSE CASE cond = NOT -> validateNOT(es, data, def)
           [] cond = AND -> validateAND(es, data, def)
           [] cond = OR  -> validateOR(es, data, def)
           [] cond = XOR -> validateXOR(es, data, def)
           [] OTHER      -> Result(DefaultLbl(def), FALSE, <<>>, <<>>)

\* func (kc *keyChain[T]) Validate(data, defaultStatus) on a non-nil receiver
ValidateLive(es, idxNil, cond, data, def) ==
    IF idxNil
    THEN Result(DefaultLbl(def), FALSE, <<>>, <<>>)
    ELSE CASE cond = NOT -> validateNOT(es, data, def)
           [] cond = AND -> validateAND(es, data, def)
           [] cond = OR  -> validateOR(es, data, def)
           [] cond = XOR -> validateXOR(es, data, def)
           [] OTHER      -> Result(DefaultLbl(def), FALSE, <<>>, <<>>)

\* ------------------------------------------------------------------ actions

\* NewKeyChain(condition) with a valid operator: the engine right after construction
Init ==
    \E c \in {k \in Conds : IsValid(k)} :
        /\ entries = <<>>
        /\ index = EmptyMap
        /\ indexNil = FALSE
        /\ condition = c
        /\ ret = [Ret0("NewKeyChain", "live") EXCEPT !.cond = c]

\* NewKeyChain(condition) with an invalid operator: no engine comes back (recv
\* is the nil handle returned), only ErrInvalidBitwiseID(condition); the engine
\* the caller already holds is not involved.
NewKeyChainRejected(c) ==
    /\ ~IsValid(c)
    /\ ret' = [Ret0("NewKeyChain", "nil") EXCEPT
                  !.cond = c, !.err = "ErrInvalidBitwiseID", !.errId = c]
    /\ UNCHANGED <<entries, index, indexNil, condition>>

\* The nil-receiver guards as they would be if Validate through a nil
\* *keyChain failed without an error, like Validate on a nil index.
NilReceiverValidateSilent(op) ==
    /\ ret' = IF op \in {"Validate", "Reset"}
              THEN Ret0(op, "nil")
              ELSE [Ret0(op, "nil") EXCEPT !.err = "ErrNilReceiver"]
    /\ UNCHANGED <<entries, index, indexNil, condition>>

\* Any method called through a nil *keyChain: the kc == nil guards
NilReceiver(op) ==
    /\ ret' = IF op = "Validate"
              THEN [Ret0(op, "nil") EXCEPT !.errs = <<"ErrNilReceiver">>]
              ELSE IF op = "Reset"
                   THEN Ret0(op, "nil")
                   ELSE [Ret0(op, "nil") EXCEPT !.err = "ErrNilReceiver"]
    /\ UNCHANGED <<entries, index, indexNil, condition>>

\* func (kc *keyChain[T]) SetValidator(status, fn) error
SetValidator(status, fn) ==
    LET es0 == IF indexNil THEN <<>> ELSE entries
        idx0 == IF indexNil THEN EmptyMap ELSE index
        r == vmSet(es0, idx0, FALSE, status, fn)
    IN  /\ entries' = r.entries
        /\ index' = r.index
        /\ indexNil' = FALSE
        /\ ret' = [Ret0("SetValidator", "live") EXCEPT
                      !.id = status.ID, !.status = status, !.fn = fn,
                      !.existed = (status.ID \in DOMAIN idx0),
                      !.pos = r.index[status.ID],
                      !.wasNil = indexNil]
        /\ UNCHANGED condition

\* DelValidator as it would be without the index == nil guard: Del on a nil
\* index finds nothing and the call returns nil.
DelValidatorNoNilGuard(id) ==
    LET r == vmDel(entries, index, indexNil, id)
    IN  /\ entries' = r.entries
        /\ index' = r.index
        /\ ret' = [Ret0("DelValidator", "live") EXCEPT
                      !.id = id, !.existed = r.removed,
                      !.pos = IF r.removed THEN index[id] ELSE -1,
                      !.wasNil = indexNil]
        /\ UNCHANGED <<indexNil, condition>>

\* func (kc *keyChain[T]) DelValidator(label) error
DelValidator(id) ==
    IF indexNil
    THEN /\ ret' = [Ret0("DelValidator", "live") EXCEPT
                       !.id = id, !.err = "ErrNoValidatorExist", !.wasNil = TRUE]
         /\ UNCHANGED <<entries, index, indexNil, condition>>
    ELSE LET r == vmDel(entries, index, indexNil, id)
         IN  /\ entries' = r.entries
             /\ index' = r.index
             /\ ret' = [Ret0("DelValidator", "live") EXCEPT
                           !.id = id, !.existed = r.removed,
                           !.pos = IF r.removed THEN index[id] ELSE -1]
             /\ UNCHANGED <<indexNil, condition>>

\* GetValidator as it would be if a registry without entries were reported like
\* a nil index.
GetValidatorLiveEmptyFails(es, idx, idxNil, id) ==
    IF idxNil \/ Len(es) = 0
    THEN [status |-> ZeroStatus, fn |-> "nil", err |-> "ErrNoValidatorExist", found |-> FALSE]
    ELSE LET r == vmGet(es, idx, idxNil, id)
         IN  [status |-> r.status, fn |-> r.fn, err |-> "nil", found |-> r.found]

\* func (kc *keyChain[T]) GetValidator(id) (Status, func, error) on a non-nil receiver
GetValidatorLive(es, idx, idxNil, id) ==
    IF idxNil
    THEN [status |-> ZeroStatus, fn |-> "nil", err |-> "ErrNoValidatorExist", found |-> FALSE]
    ELSE LET r == vmGet(es, idx, idxNil, id)
         IN  [status |-> r.status, fn |-> r.fn, err |-> "nil", found |-> r.found]

\* A GetValidator call
GetValidator(id) ==
    LET r == GetValidatorLive(entries, index, indexNil, id)
    IN  /\ ret' = [Ret0("GetValidator", "live") EXCEPT
                      !.id = id, !.status = r.status, !.fn = r.fn, !.err = r.err,
                      !.existed = r.found,
                      !.pos = IF r.found THEN index[id] ELSE -1,
                      !.wasNil = indexNil]
        /\ UNCHANGED <<entries, index, indexNil, condition>>

\* SetCondition as it would be if a change of operator started the registry
\* afresh.
SetConditionClearsRegistry(c) ==
    IF ~IsValid(c)
    THEN /\ ret' = [Ret0("SetCondition", "live") EXCEPT
                       !.cond = c, !.err = "ErrInvalidBitwiseID", !.errId = c]
         /\ UNCHANGED <<entries, index, indexNil, condition>>
    ELSE /\ condition' = c
         /\ entries' = IF c = condition THEN entries ELSE <<>>
         /\ index' = IF c = condition THEN index ELSE EmptyMap
         /\ ret' = [Ret0("SetCondition", "live") EXCEPT !.cond = c]
         /\ UNCHANGED indexNil

\* SetCondition as it would be if the error it returns held the engine's
\* current operator instead of the rejected argument.
SetConditionReportsCurrent(c) ==
    IF ~IsValid(c)
    THEN /\ ret' = [Ret0("SetCondition", "live") EXCEPT
                       !.cond = c, !.err = "ErrInvalidBitwiseID", !.errId = condition]
         /\ UNCHANGED <<entries, index, indexNil, condition>>
    ELSE /\ condition' = c
         /\ ret' = [Ret0("SetCondition", "live") EXCEPT !.cond = c]
         /\ UNCHANGED <<entries, index, indexNil>>

\* func (kc *keyChain[T]) SetCondition(condition) error
SetCondition(c) ==
    IF ~IsValid(c)
    THEN /\ ret' = [Ret0("SetCondition", "live") EXCEPT
                       !.cond = c, !.err = "ErrInvalidBitwiseID", !.errId = c]
         /\ UNCHANGED <<entries, index, indexNil, condition>>
    ELSE /\ condition' = c
         /\ ret' = [Ret0("SetCondition", "live") EXCEPT !.cond = c]
         /\ UNCHANGED <<entries, index, indexNil>>

\* Validate as it would be if it replaced a nil index by an empty one, the way
\* SetValidator does, before evaluating.
ValidateInitialisesIndex(data, def) ==
    LET r == ValidateLive(entries, FALSE, condition, data, def)
    IN  /\ ret' = [Ret0("Validate", "live") EXCEPT
                      !.data = data, !.def = def, !.lbl = r.lbl, !.ok = r.ok,
                      !.errs = r.errs, !.calls = r.calls, !.wasNil = indexNil]
        /\ indexNil' = FALSE
        /\ UNCHANGED <<entries, index, condition>>

\* func (kc *keyChain[T]) Validate(data, defaultStatus) (StatusGetter, bool, []error)
Validate(data, def) ==
    LET r == ValidateLive(entries, indexNil, condition, data, def)
    IN  /\ ret' = [Ret0("Validate", "live") EXCEPT
                      !.data = data, !.def = def, !.lbl = r.lbl, !.ok = r.ok,
                      !.errs = r.errs, !.calls = r.calls, !.wasNil = indexNil]
        /\ UNCHANGED <<entries, index, indexNil, condition>>

\* Reset as it would be if it emptied the registry and kept the operator.
ResetKeepsCondition ==
    /\ entries' = <<>>
    /\ index' = EmptyMap
    /\ indexNil' = TRUE
    /\ ret' = [Ret0("Reset", "live") EXCEPT !.cond = condition, !.wasNil = indexNil]
    /\ UNCHANGED condition

\* func (kc *keyChain[T]) Reset(); the record keeps the operator and the
\* nil-ness of the index the call found.
Reset ==
    /\ condition' = 0
    /\ entries' = <<>>
    /\ index' = EmptyMap
    /\ indexNil' = TRUE
    /\ ret' = [Ret0("Reset", "live") EXCEPT !.cond = condition, !.wasNil = indexNil]

Ops == {"SetValidator", "GetValidator", "DelValidator", "SetCondition", "Validate", "Reset"}

\* The (label, predicate) pairs the callers register.  Each identifier comes in
\* two variants, so that an overwrite changes the detail and the predicate; over
\* the identifiers the variants cover both details and every predicate.
VariantTable ==
    << << [details |-> "",  fn |-> "alwaysTrue"],
          [details |-> "d", fn |-> "alwaysFalse"] >>,
       << [details |-> "",  fn |-> "sometimesTrue"],
          [details |-> "d", fn |-> "nil"] >>,
       << [details |-> "d", fn |-> "equalsTarget"],
          [details |-> "",  fn |-> "trueWithErr"] >> >>

VariantsOf(i) == VariantTable[((i - 1) % Len(VariantTable)) + 1]

Registrations ==
    {[status |-> Status(IdName[i], VariantsOf(i)[v].details), fn |-> VariantsOf(i)[v].fn] :
        i \in 1..NumIDs, v \in 1..Len(VariantTable[1])}

\* One call of the API, on a live handle or through a nil *keyChain.
Next ==
    \/ \E r \in Registrations : SetValidator(r.status, r.fn)
    \/ \E id \in IDs : DelValidator(id)
    \/ \E id \in IDs : GetValidator(id)
    \/ \E c \in Conds : SetCondition(c)
    \/ \E data \in Data, def \in Defaults : Validate(data, def)
    \/ Reset
    \/ \E c \in Conds : NewKeyChainRejected(c)
    \/ \E op \in Ops : NilReceiver(op)

Spec == Init /\ [][Next]_vars

\* ------------------------------------------- long registries (error buffer)

\* The (label, predicate) pairs a caller registers as its entry number k when
\* it fills a registry with many failing validators: identifiers "S0", "S1",
\* ...; the predicates alternate between two that fail with different errors
\* (the second succeeds on data 1), and every sixteenth entry may instead fail
\* without an error or carry no predicate.
LongRegistrations(k) ==
    {[status |-> Status("S" \o ToString(k), ""), fn |-> f] :
        f \in IF k % 16 = 5
              THEN {"alwaysFalse", "equalsTarget", "nil"}
              ELSE IF k % 2 = 0 THEN {"alwaysFalse"} ELSE {"sometimesTrue"}}

\* NewKeyChain(OR) or NewKeyChain(XOR)
InitBuf ==
    \E c \in {OR, XOR} :
        /\ entries = <<>>
        /\ index = EmptyMap
        /\ indexNil = FALSE
        /\ condition = c
        /\ ret = [Ret0("NewKeyChain", "live") EXCEPT !.cond = c]

\* The caller appends validators one after the other and validates in between.
NextBuf ==
    \/ /\ Len(entries) < MaxLong
       /\ \E r \in LongRegistrations(Len(entries)) : SetValidator(r.status, r.fn)
    \/ \E data \in Data, def \in Defaults : Validate(data, def)

SpecBuf == InitBuf /\ [][NextBuf]_vars

\* ------------------------------------------------------------ properties

\* The last call was op, made on a live handle.
Called(op) == ret.op = op /\ ret.recv = "live"

\* Positions (0-based) of a slice.
Positions(es) == 0..(Len(es) - 1)

\* The sequence es without its position i.
Without(es, i) == [p \in 1..(Len(es) - 1) |-> IF p - 1 < i THEN es[p] ELSE es[p + 1]]

\* Positions whose predicate is not nil, i.e. the predicates an exhaustive pass invokes.
NonNil(es) == {i \in Positions(es) : At(es, i).validator # "nil"}

\* What the predicate at position i returns on data.
Out(es, i, data) == Call(At(es, i).validator, data)

\* Positions of the non-nil predicates returning true / false on data.
Trues(es, data) == {i \in NonNil(es) : Out(es, i, data).ok}

Falses(es, data) == {i \in NonNil(es) : ~Out(es, i, data).ok}

Min(S) == CHOOSE x \in S : \A y \in S : x <= y

Max(S) == CHOOSE x \in S : \A y \in S : x >= y

\* The non-nil errors of the predicates at the positions in S, in position order.
RECURSIVE ErrsOf(_, _, _)
ErrsOf(es, S, data) ==
    IF S = {}
    THEN <<>>
    ELSE LET i == Min(S)
             rest == ErrsOf(es, S \ {i}, data)
         IN  IF Out(es, i, data).err = "nil" THEN rest ELSE <<Out(es, i, data).err>> \o rest

\* What the last Validate call returned.
Returned(lbl, ok, errs) == ret.lbl = lbl /\ ret.ok = ok /\ ret.errs = errs

\* The last call was Validate under operator c on a live handle with a non-nil index.
\* Validate changes nothing, so entries and condition are those it ran on.
Validated(c) == Called("Validate") /\ ~ret.wasNil /\ condition = c

\* C1: the entry list and the identifier index agree in every reachable state:
\* the list holds exactly the identifiers in the index, none twice, and the
\* index maps each identifier to the position of its entry.
C1_RegistryConsistent ==
    /\ indexNil => entries = <<>>
    /\ {At(entries, i).id : i \in Positions(entries)} = DOMAIN index
    /\ \A i, j \in Positions(entries) : At(entries, i).id = At(entries, j).id => i = j
    /\ \A id \in DOMAIN index :
          /\ index[id] \in Positions(entries)
          /\ At(entries, index[id]).id = id

\* A deletion in front of two remaining entries, which had to be re-indexed.
C1_Witness ==
    /\ Called("DelValidator") /\ ret.existed /\ ret.pos = 0
    /\ Len(entries) = 2

\* C2: under AND with at least one non-nil predicate, all true gives (label of
\* the last predicate evaluated, true, no errors); otherwise (defaultLabel,
\* false, the error of the first false predicate, or none if it gave none).
C2_ValidateAND ==
    (Validated(AND) /\ NonNil(entries) # {}) =>
        IF Falses(entries, ret.data) = {}
        THEN Returned(EntryLbl(entries, Max(NonNil(entries))), TRUE, <<>>)
        ELSE LET f == Min(Falses(entries, ret.data))
             IN  Returned(DefaultLbl(ret.def), FALSE,
                          IF Out(entries, f, ret.data).err = "nil"
                          THEN <<>> ELSE <<Out(entries, f, ret.data).err>>)

\* AND failing on its third predicate, which returned an error, after two true ones.
C2_Witness ==
    /\ Validated(AND) /\ Len(entries) = 3
    /\ ~ret.ok /\ Len(ret.errs) = 1 /\ ret.calls = <<0, 1, 2>>

\* C3: under OR, a true predicate gives (label of the first true one, true, nil)
\* with no error of the failed ones before it; none true gives (defaultLabel,
\* false, the errors of the failed predicates in insertion order).
C3_ValidateOR ==
    Validated(OR) =>
        IF Trues(entries, ret.data) # {}
        THEN Returned(EntryLbl(entries, Min(Trues(entries, ret.data))), TRUE, <<>>)
        ELSE Returned(DefaultLbl(ret.def), FALSE, ErrsOf(entries, NonNil(entries), ret.data))

\* OR failing with two different errors collected.
C3_Witness ==
    /\ Validated(OR) /\ ~ret.ok
    /\ Len(ret.errs) = 2 /\ ret.errs[1] # ret.errs[2]

\* C4: under XOR, exactly one true gives (its label, true, nil) wherever it
\* stands; two or more give (defaultLabel, false, nil); none gives
\* (defaultLabel, false, all collected errors).
C4_ValidateXOR ==
    Validated(XOR) =>
        LET t == Trues(entries, ret.data)
        IN  IF Cardinality(t) = 1
            THEN Returned(EntryLbl(entries, Min(t)), TRUE, <<>>)
            ELSE IF Cardinality(t) >= 2
                 THEN Returned(DefaultLbl(ret.def), FALSE, <<>>)
                 ELSE Returned(DefaultLbl(ret.def), FALSE,
                               ErrsOf(entries, NonNil(entries), ret.data))

\* XOR failing on a second true after a failed predicate had returned an error.
C4_Witness ==
    /\ Validated(XOR) /\ Len(entries) = 3
    /\ Cardinality(Trues(entries, ret.data)) = 2
    /\ 0 \in Falses(entries, ret.data) /\ Out(entries, 0, ret.data).err # "nil"
    /\ ~ret.ok

\* C5: under NOT with at least one non-nil predicate, all false gives (label of
\* the last predicate evaluated, true, nil); a true one gives defaultLabel and
\* false at the first predicate that returns true.
C5_ValidateNOT ==
    (Validated(NOT) /\ NonNil(entries) # {}) =>
        IF Trues(entries, ret.data) = {}
        THEN Returned(EntryLbl(entries, Max(NonNil(entries))), TRUE, <<>>)
        ELSE /\ ret.lbl = DefaultLbl(ret.def)
             /\ ~ret.ok
             /\ ret.calls # <<>>
             /\ ret.calls[Len(ret.calls)] = Min(Trues(entries, ret.data))

\* NOT succeeding over three predicates that all returned false, one with an error.
C5_Witness ==
    /\ Validated(NOT) /\ ret.ok /\ ret.calls = <<0, 1, 2>>
    /\ \E i \in NonNil(entries) : Out(entries, i, ret.data).err # "nil"

\* C6 as stated: with no entries, every operator returns (defaultLabel, false, nil).
C6_AsStated ==
    (Called("Validate") /\ Len(entries) = 0) => Returned(DefaultLbl(ret.def), FALSE, <<>>)

\* C6, amended: with no entries Validate returns no errors and
\*   (defaultLabel, false) after Reset (nil index) under every operator, and
\*   under OR and XOR on a constructed or emptied registry;
\*   (the empty label, false) under AND and (the empty label, true) under NOT
\*   on a constructed or emptied registry.
C6_ValidateEmpty ==
    (Called("Validate") /\ Len(entries) = 0) =>
        IF ret.wasNil \/ condition \in {OR, XOR}
        THEN Returned(DefaultLbl(ret.def), FALSE, <<>>)
        ELSE IF condition = AND
             THEN Returned(EmptyLbl, FALSE, <<>>)
             ELSE condition = NOT /\ Returned(EmptyLbl, TRUE, <<>>)

\* NOT succeeding on a constructed engine that holds no entries.
C6_Witness ==
    /\ Called("Validate") /\ Len(entries) = 0 /\ ~ret.wasNil
    /\ condition = NOT /\ ret.ok /\ ret.lbl = EmptyLbl

\* C7: SetValidator on a registered identifier replaces that entry's label and
\* predicate in place and leaves the identifier sequence and every other entry
\* alone; on an unregistered identifier it appends and leaves the rest alone.
C7_SetFrame ==
    [][(ret'.op = "SetValidator" /\ ret'.recv = "live") =>
         LET new == Entry(ret'.status.ID, ret'.status, ret'.fn)
         IN  IF \E i \in Positions(entries) : At(entries, i).id = ret'.id
             THEN LET i == CHOOSE k \in Positions(entries) : At(entries, k).id = ret'.id
                  IN  /\ Len(entries') = Len(entries)
                      /\ \A k \in Positions(entries) :
                            /\ At(entries', k).id = At(entries, k).id
                            /\ k # i => At(entries', k) = At(entries, k)
                      /\ At(entries', i) = new
             ELSE entries' = Append(entries, new)]_vars

\* The middle one of three entries overwritten with another detail.
C7_Witness ==
    /\ Called("SetValidator") /\ ret.existed /\ ret.pos = 1
    /\ Len(entries) = 3 /\ ret.status.Details = "d"

\* C8: DelValidator of a registered identifier takes exactly that entry out;
\* the others keep content and relative order (first, middle or last removed).
C8_DelFrame ==
    [][(ret'.op = "DelValidator" /\ ret'.recv = "live"
          /\ \E i \in Positions(entries) : At(entries, i).id = ret'.id) =>
         LET i == CHOOSE k \in Positions(entries) : At(entries, k).id = ret'.id
         IN  entries' = Without(entries, i)]_vars

\* The middle one of three entries removed.
C8_Witness ==
    /\ Called("DelValidator") /\ ret.existed /\ ret.pos = 1
    /\ Len(entries) = 2

\* C9: on a live handle, also right after Reset, GetValidator after
\* SetValidator(label, predicate) returns no error, the label and the predicate.
C9_SetThenGet ==
    Called("SetValidator") =>
        LET g == GetValidatorLive(entries, index, indexNil, ret.id)
        IN  g.err = "nil" /\ g.found /\ g.status = ret.status /\ g.fn = ret.fn

\* A SetValidator right after Reset, when the index was nil.
C9_Witness ==
    /\ Called("SetValidator") /\ ret.wasNil
    /\ ret.status.Details = "d" /\ ret.fn # "nil"

\* C10: while the index is not nil, GetValidator(id) after DelValidator(id)
\* reports not-found (zero label, nil predicate, no error), and DelValidator of
\* an unregistered identifier returns no error and changes nothing.
C10_DelThenGet ==
    [][(ret'.op = "DelValidator" /\ ret'.recv = "live" /\ ~indexNil) =>
         LET g == GetValidatorLive(entries', index', indexNil', ret'.id)
         IN  /\ ret'.err = "nil"
             /\ g.err = "nil" /\ ~g.found /\ g.status = ZeroStatus /\ g.fn = "nil"
             /\ ret'.id \notin DOMAIN index =>
                   UNCHANGED <<entries, index, indexNil, condition>>]_vars

\* A deletion of an unregistered identifier from a registry that holds entries.
C10_Witness ==
    /\ Called("DelValidator") /\ ~ret.existed /\ ret.err = "nil"
    /\ Len(entries) = 2

\* The positions in S as an increasing sequence.
RECURSIVE InOrder(_)
InOrder(S) == IF S = {} THEN <<>> ELSE <<Min(S)>> \o InOrder(S \ {Min(S)})

\* The position at which operator c is decided on es and data, or Len(es) when
\* no predicate decides: the first true under NOT and OR, the first false
\* under AND, the second true under XOR.
Deciding(c, es, data) ==
    LET t == Trues(es, data)
        f == Falses(es, data)
    IN  CASE c \in {NOT, OR} -> IF t # {} THEN Min(t) ELSE Len(es)
          [] c = AND        -> IF f # {} THEN Min(f) ELSE Len(es)
          [] c = XOR        -> IF Cardinality(t) >= 2 THEN Min(t \ {Min(t)}) ELSE Len(es)

\* The last call was Validate on a live handle with a non-nil index.
ValidatedAny == Called("Validate") /\ ~ret.wasNil

\* C11: one Validate call invokes the non-nil predicates in insertion order,
\* each at most once, up to and including the deciding one (first true under
\* NOT and OR, first false under AND, second true under XOR) and none after
\* it; with no deciding predicate it invokes every non-nil predicate once.
C11_CallOrder ==
    ValidatedAny =>
        ret.calls = InOrder({i \in NonNil(entries) :
                                i <= Deciding(condition, entries, ret.data)})

\* XOR returning at the second true predicate with a third one left uninvoked.
C11_Witness ==
    /\ Validated(XOR) /\ Len(entries) = 3
    /\ ret.calls = <<0, 1>> /\ 2 \in NonNil(entries)

\* C12: under OR and XOR with no successful predicate the returned error list
\* is the list a plain append builds: the non-nil errors of the failed
\* predicates, each once, in evaluation order, whether the count stays below
\* the inline buffer's 32 slots, fills it exactly, or spills to the heap slice.
C12_ErrorsAsAppend ==
    (ValidatedAny /\ condition \in {OR, XOR} /\ Trues(entries, ret.data) = {}) =>
        /\ ~ret.ok
        /\ ret.errs = ErrsOf(entries, NonNil(entries), ret.data)

\* A call whose 33rd error spilled the full inline buffer to the heap slice,
\* over a registry that also holds a predicate contributing no error.
C12_Witness ==
    /\ ValidatedAny /\ condition = XOR /\ ~ret.ok
    /\ Len(ret.errs) = BufLen + 1
    /\ Len(entries) > Len(ret.errs)
    /\ ret.errs[BufLen] # ret.errs[BufLen + 1]

\* The positions of the predicates the last Validate call invoked.
Invoked == {ret.calls[k] : k \in 1..Len(ret.calls)}

\* C13 as stated: every error of an invoked predicate is in the returned list,
\* except under NOT the errors of predicates that returned false, and under XOR
\* all errors once a second true predicate was invoked.
C13_AsStated ==
    ValidatedAny =>
        \A i \in Invoked :
            LET o == Out(entries, i, ret.data)
            IN  (/\ o.err # "nil"
                 /\ ~(condition = NOT /\ ~o.ok)
                 /\ ~(condition = XOR /\ Cardinality(Invoked \cap Trues(entries, ret.data)) >= 2))
                => \E j \in 1..Len(ret.errs) : ret.errs[j] = o.err

\* C13, amended: the returned list holds exactly the non-nil errors, in
\* invocation order, of the invoked predicates that returned false
\*   under AND (that is the one deciding predicate), and
\*   under OR and XOR when no invoked predicate returned true;
\* every other error is discarded: all of them under NOT, those of predicates
\* that returned true under every operator, and all of them under OR and XOR
\* as soon as one predicate returned true.
C13_ErrorsSurfaced ==
    ValidatedAny =>
        LET t == Invoked \cap Trues(entries, ret.data)
            surfaced == CASE condition = NOT -> {}
                          [] condition = AND -> Invoked \ t
                          [] condition \in {OR, XOR} -> IF t = {} THEN Invoked ELSE {}
        IN  ret.errs = ErrsOf(entries, surfaced, ret.data)

\* OR succeeding on its second predicate after the first had failed with an error.
C13_Witness ==
    /\ Validated(OR) /\ ret.ok /\ Len(ret.calls) = 2
    /\ Out(entries, ret.calls[1], ret.data).err # "nil"
    /\ ret.errs = <<>>

\* The entries of es that carry a predicate, in order.
WithPredicate(es) == SelectSeq(es, LAMBDA e : e.validator # "nil")

\* Two returned labels denote the same label: both the default, both the empty
\* one, or both the label of an entry, with the same identifier and detail.
SameLabel(a, b) == a.kind = b.kind /\ a.ID = b.ID /\ a.Details = b.Details

\* C14: under every operator Validate returns the same (label, success,
\* errors) as it returns on the registry without its nil-predicate entries.
C14_NilSkipped ==
    Called("Validate") =>
        LET r == ValidateLive(WithPredicate(entries), ret.wasNil, condition,
                              ret.data, ret.def)
        IN  /\ SameLabel(ret.lbl, r.lbl)
            /\ ret.ok = r.ok
            /\ ret.errs = r.errs

\* A success whose label belongs to an entry standing behind a nil-predicate
\* entry, so that the entry sits at another position once that one is removed.
C14_Witness ==
    /\ ValidatedAny /\ ret.ok /\ ret.lbl.kind = "entry"
    /\ \E i \in Positions(entries) :
          At(entries, i).validator = "nil" /\ i < ret.lbl.slot

\* C15: a Validate call, under any operator and with any outcome, leaves the
\* entry sequence, the identifier index and the operator exactly as they were,
\* and the same call repeated right after it returns the same result.
C15_ValidateFrame ==
    [][(ret'.op = "Validate" /\ ret'.recv = "live") =>
         /\ UNCHANGED <<entries, index, indexNil, condition>>
         /\ LET again == ValidateLive(entries', indexNil', condition', ret'.data, ret'.def)
            IN  /\ again.lbl = ret'.lbl
                /\ again.ok = ret'.ok
                /\ again.errs = ret'.errs]_vars

\* A Validate call that invoked all three predicates of a registry and succeeded.
C15_Witness ==
    /\ ValidatedAny /\ Len(entries) = 3
    /\ ret.ok /\ Len(ret.calls) = 3

\* C16 as stated: after Reset the engine answers like one freshly constructed
\* with the default operator; stated here for the first call after Reset, a
\* GetValidator or a Validate, compared with the same call on NewKeyChain(NOT).
C16_ResetIsFresh ==
    Called("Reset") =>
        /\ \A id \in IDs :
              GetValidatorLive(entries, index, indexNil, id)
                  = GetValidatorLive(<<>>, EmptyMap, FALSE, id)
        /\ \A data \in Data, def \in Defaults :
              LET a == ValidateLive(entries, indexNil, condition, data, def)
                  b == ValidateLive(<<>>, FALSE, NOT, data, def)
              IN  a.lbl = b.lbl /\ a.ok = b.ok /\ a.errs = b.errs

\* The step is a call of op on a live handle.
Calls(op) == ret'.op = op /\ ret'.recv = "live"

\* C17: the index is nil exactly from a Reset until the next SetValidator;
\* while it is, every GetValidator and DelValidator returns
\* ErrNoValidatorExist (GetValidator with the zero label and no predicate), and
\* the SetValidator(label, predicate) that ends this phase makes GetValidator
\* of that identifier return the label and the predicate without error.
C17_AfterReset ==
    [][/\ Calls("Reset") => indexNil'
       /\ (~indexNil /\ indexNil') => Calls("Reset")
       /\ (indexNil /\ ~Calls("SetValidator")) => indexNil'
       /\ (indexNil /\ Calls("DelValidator")) => ret'.err = "ErrNoValidatorExist"
       /\ (indexNil /\ Calls("GetValidator")) =>
             /\ ret'.err = "ErrNoValidatorExist"
             /\ ret'.status = ZeroStatus /\ ret'.fn = "nil"
       /\ (indexNil /\ Calls("SetValidator")) =>
             LET g == GetValidatorLive(entries', index', indexNil', ret'.id)
             IN  /\ ret'.err = "nil"
                 /\ g.err = "nil" /\ g.found
                 /\ g.status = ret'.status /\ g.fn = ret'.fn]_vars

\* A DelValidator after Reset, before any SetValidator, reporting the error.
C17_Witness ==
    /\ Called("DelValidator") /\ ret.wasNil /\ indexNil
    /\ ret.err = "ErrNoValidatorExist"

\* C18 as stated: the first call on a freshly constructed engine, if it is a
\* GetValidator or a DelValidator, returns ErrNoValidatorExist.
C18_AsStated ==
    [][(Called("NewKeyChain") /\ (Calls("GetValidator") \/ Calls("DelValidator")))
         => ret'.err = "ErrNoValidatorExist"]_vars

\* C18, amended: a constructed engine has a non-nil index and keeps it until
\* Reset; GetValidator and DelValidator return ErrNoValidatorExist exactly
\* when the index is nil.  On an engine that has not been Reset, so also on a
\* fresh one before any SetValidator, GetValidator of an unregistered
\* identifier returns (zero label, nil predicate, nil) and DelValidator nil.
C18_FreshNoError ==
    [][/\ Called("NewKeyChain") => ~indexNil
       /\ (~indexNil /\ ~Calls("Reset")) => ~indexNil'
       /\ (Calls("GetValidator") \/ Calls("DelValidator")) =>
             (ret'.err = IF indexNil THEN "ErrNoValidatorExist" ELSE "nil")
       /\ (~indexNil /\ Calls("GetValidator") /\ ret'.id \notin DOMAIN index) =>
             ret'.status = ZeroStatus /\ ret'.fn = "nil"]_vars

\* GetValidator on an engine that holds no entries and has a non-nil index, as
\* after construction: not found, without error.
C18_Witness ==
    /\ Called("GetValidator") /\ ~ret.wasNil /\ ~indexNil
    /\ Len(entries) = 0 /\ ret.err = "nil" /\ ret.fn = "nil"

\* The four defined operators.
Operators == {NOT, AND, OR, XOR}

\* C19: NewKeyChain and SetCondition accept each of NOT, AND, OR, XOR and reject
\* every other value with an ErrInvalidBitwiseID holding that value; a rejected
\* SetCondition leaves operator and registry alone, a rejected NewKeyChain
\* returns no engine.
C19_OperatorChecked ==
    [][/\ Called("NewKeyChain") =>
             /\ ret.cond \in Operators /\ ret.err = "nil"
             /\ condition = ret.cond
       /\ ret'.op = "NewKeyChain" =>
             /\ ret'.cond \notin Operators
             /\ ret'.recv = "nil"
             /\ ret'.err = "ErrInvalidBitwiseID" /\ ret'.errId = ret'.cond
       /\ Calls("SetCondition") =>
             IF ret'.cond \in Operators
             THEN ret'.err = "nil" /\ condition' = ret'.cond
             ELSE /\ ret'.err = "ErrInvalidBitwiseID" /\ ret'.errId = ret'.cond
                  /\ UNCHANGED <<entries, index, indexNil, condition>>]_vars

\* SetCondition(255) rejected on an engine that holds two entries and runs
\* under XOR.
C19_Witness ==
    /\ Called("SetCondition") /\ ret.cond = Uint8Max
    /\ ret.err = "ErrInvalidBitwiseID" /\ ret.errId = Uint8Max
    /\ Len(entries) = 2 /\ condition = XOR

\* C20: through a nil handle SetValidator, GetValidator, DelValidator and
\* SetCondition return ErrNilReceiver (GetValidator with the zero label and no
\* predicate), Validate returns (nil label, false, exactly one ErrNilReceiver),
\* Reset returns nothing and fails nothing; no such call changes the engine,
\* and what it returns does not depend on the engine's state.
C20_NilReceiver ==
    [][(ret'.recv = "nil" /\ ret'.op \in Ops) =>
         /\ UNCHANGED <<entries, index, indexNil, condition>>
         /\ ret' = CASE ret'.op = "Validate" ->
                           [Ret0("Validate", "nil") EXCEPT !.errs = <<"ErrNilReceiver">>]
                     [] ret'.op = "Reset" -> Ret0("Reset", "nil")
                     [] OTHER -> [Ret0(ret'.op, "nil") EXCEPT !.err = "ErrNilReceiver"]
         /\ ret'.lbl = NoLbl /\ ~ret'.ok
         /\ ret'.status = ZeroStatus /\ ret'.fn = "nil"]_vars

\* Validate through a nil handle while the caller's other engine holds entries.
C20_Witness ==
    /\ ret.recv = "nil" /\ ret.op = "Validate"
    /\ ret.errs = <<"ErrNilReceiver">> /\ ~ret.ok
    /\ Len(entries) = 2

\* C21: in every state reachable from a successful NewKeyChain the stored
\* operator is one of NOT, AND, OR, XOR, so a Validate that gets past the nil
\* checks always enters one of the four cases of its switch.
C21_OperatorValid ==
    /\ condition \in Operators
    /\ ValidatedAny =>
          LET r == CASE condition = NOT -> validateNOT(entries, ret.data, ret.def)
                     [] condition = AND -> validateAND(entries, ret.data, ret.def)
                     [] condition = OR  -> validateOR(entries, ret.data, ret.def)
                     [] condition = XOR -> validateXOR(entries, ret.data, ret.def)
          IN  Returned(r.lbl, r.ok, r.errs)

\* SetCondition(4) rejected on an engine constructed with or set to AND.
C21_Witness ==
    /\ Called("SetCondition") /\ ret.cond = XOR + 1
    /\ ret.err = "ErrInvalidBitwiseID" /\ condition = AND

\* C22: a successful SetCondition stores the new operator and leaves the
\* entries, their order and the identifier index as they were; a Validate
\* right after it returns what the new operator gives on the old entries.
C22_SetConditionFrame ==
    [][(Calls("SetCondition") /\ ret'.err = "nil") =>
         /\ condition' = ret'.cond
         /\ UNCHANGED <<entries, index, indexNil>>
         /\ \A data \in Data, def \in Defaults :
               ValidateLive(entries', indexNil', condition', data, def)
                   = ValidateLive(entries, indexNil, ret'.cond, data, def)]_vars

\* SetCondition(XOR) accepted on an engine that holds three entries.
C22_Witness ==
    /\ Called("SetCondition") /\ ret.err = "nil" /\ ret.cond = XOR
    /\ condition = XOR /\ Len(entries) = 3

\* C23 as stated: on a live handle a failed Validate returns the caller's
\* defaultLabel, and a successful one returns no errors and the label of a
\* registered entry whose predicate was invoked in that call.
C23_AsStated ==
    Called("Validate") =>
        IF ret.ok
        THEN /\ ret.errs = <<>>
             /\ ret.lbl.kind = "entry" /\ ret.lbl.slot \in Invoked
             /\ ret.lbl = EntryLbl(entries, ret.lbl.slot)
        ELSE ret.lbl = DefaultLbl(ret.def)

\* C23, amended: the statement holds whenever the index is nil, the operator
\* is OR or XOR, or the registry holds at least one non-nil predicate.  On a
\* non-nil index without any non-nil predicate no predicate is invoked and
\* AND returns (the empty label, false, nil), NOT (the empty label, true, nil).
C23_LabelOfOutcome ==
    Called("Validate") =>
        IF ret.wasNil \/ condition \in {OR, XOR} \/ NonNil(entries) # {}
        THEN IF ret.ok
             THEN /\ ret.errs = <<>>
                  /\ ret.lbl.kind = "entry" /\ ret.lbl.slot \in Invoked
                  /\ ret.lbl = EntryLbl(entries, ret.lbl.slot)
             ELSE ret.lbl = DefaultLbl(ret.def)
        ELSE /\ ret.lbl = EmptyLbl /\ ret.errs = <<>> /\ ret.calls = <<>>
             /\ ret.ok = (condition = NOT)

\* AND failing with the empty label on a registry whose only entry has no predicate.
C23_Witness ==
    /\ Validated(AND) /\ Len(entries) = 1 /\ NonNil(entries) = {}
    /\ ~ret.ok /\ ret.lbl = EmptyLbl

\* C24 as stated: the label a successful Validate returned still reads as the
\* deciding validator's identifier and detail after the next SetValidator or
\* DelValidator on the same engine.
C24_LabelStable ==
    [][(/\ Called("Validate") /\ ret.ok /\ ret.lbl.kind = "entry"
        /\ (Calls("SetValidator") \/ Calls("DelValidator")))
         => Deref(ret.lbl, entries') = Status(ret.lbl.ID, ret.lbl.Details)]_vars

\* C25: Reset stores NOT whatever the operator was; afterwards only
\* SetCondition changes the operator, so an engine built with AND, OR or XOR,
\* Reset and repopulated, evaluates Validate as NOT does until SetCondition.
C25_ResetToNOT ==
    [][/\ Calls("Reset") => condition' = NOT
       /\ condition' # condition => (Calls("Reset") \/ Calls("SetCondition"))
       /\ (Calls("Validate") /\ condition = NOT /\ ~indexNil) =>
             LET r == validateNOT(entries, ret'.data, ret'.def)
             IN  ret'.lbl = r.lbl /\ ret'.ok = r.ok /\ ret'.errs = r.errs]_vars

\* A Reset of an engine that was running under XOR.
C25_Witness ==
    /\ Called("Reset") /\ ret.cond = XOR /\ ~ret.wasNil
    /\ condition = NOT

\* C26: on a live handle Validate under NOT returns an empty error list in
\* every outcome, also when it fails on a predicate that returned true with an
\* error; under AND the error list never holds more than one error.
C26_ErrorCount ==
    /\ (Called("Validate") /\ condition = NOT) => ret.errs = <<>>
    /\ (Called("Validate") /\ condition = AND) => Len(ret.errs) <= 1

\* NOT failing on a predicate that returned true together with an error, after
\* a predicate that returned false with an error.
C26_Witness ==
    /\ Validated(NOT) /\ ~ret.ok /\ Len(ret.calls) >= 2
    /\ \A i \in Invoked : Out(entries, i, ret.data).err # "nil"
    /\ ret.errs = <<>>

\* C27: the evaluation order is the order of each identifier's most recent
\* first insertion: no call changes the relative order of two identifiers that
\* stay registered, an identifier that becomes registered stands last, also
\* when DelValidator had just removed it from an earlier position, and
\* SetValidator on a registered identifier keeps its position.
C27_InsertionOrder ==
    [][/\ \A a, b \in DOMAIN index \cap DOMAIN index' :
             (index[a] < index[b]) <=> (index'[a] < index'[b])
       /\ \A a \in DOMAIN index' \ DOMAIN index :
             /\ Calls("SetValidator") /\ ret'.id = a
             /\ index'[a] = Len(entries') - 1
       /\ (Calls("SetValidator") /\ ret'.id \in DOMAIN index) =>
             index'[ret'.id] = index[ret'.id]
       /\ (/\ Called("DelValidator") /\ ret.existed
           /\ Calls("SetValidator") /\ ret'.id = ret.id) =>
             /\ index'[ret.id] = Len(entries)
             /\ entries' = Append(entries, Entry(ret'.id, ret'.status, ret'.fn))]_vars

\* The identifier "A" registered anew behind two others, at the end of the order.
C27_Witness ==
    /\ Called("SetValidator") /\ ~ret.existed /\ ret.id = IdName[1]
    /\ ret.pos = 2 /\ Len(entries) = 3

====
